---- MODULE Spec2Model ----
(***************************************************************************)
(* Model of drizzle-orm/src/sql/functions/full-text-search.ts: the builders *)
(* of PostgreSQL full-text-search fragments (to_tsvector, the four tsquery  *)
(* conversions, ts_rank, ts_rank_cd, setweight).                            *)
(*                                                                          *)
(* A JavaScript value is a record [t, v]: t is its runtime type, v its      *)
(* content.  Numbers are kept in tenths (1 is 0.1, 10 is 1, 25 is 2.5) so   *)
(* that the text Array.prototype.join produces is computed, not assumed.    *)
(* A fragment is what the tagged template sql`...` receives: the template's *)
(* literal strings and, in order, the values bound to its slots.            *)
(***************************************************************************)
EXTENDS Integers, Sequences, FiniteSets, TLC

VARIABLES pc, op, args, result

vars == <<pc, op, args, result>>

\* Longest weights array enumerated (besides the documented example).
MaxWeights == 2

---------------------------------------------------------------------------
(* JavaScript values *)

Undefined == [t |-> "undefined", v |-> ""]

Str(s) == [t |-> "string", v |-> s]

Num(n) == [t |-> "number", v |-> n]

Arr(s) == [t |-> "array", v |-> s]

Obj(name) == [t |-> "object", v |-> name]

TypeError == [t |-> "throw", v |-> "TypeError"]

\* typeof x: an array is an object.
typeof(x) == IF x.t = "array" THEN "object" ELSE x.t

isArray(x) == x.t = "array"

\* ToBoolean, as the conditional operator `x ? a : b` applies it.
Truthy(x) ==
    CASE x.t = "undefined" -> FALSE
      [] x.t = "string" -> x.v # ""
      [] x.t = "number" -> x.v # 0
      [] OTHER -> TRUE

\* The parameter at position i of a call: undefined when not supplied.
Arg(a, i) == IF i <= Len(a) THEN a[i] ELSE Undefined

---------------------------------------------------------------------------
(* Number-to-text conversion and Array.prototype.join *)

Digit(d) ==
    CASE d = 0 -> "0" [] d = 1 -> "1" [] d = 2 -> "2" [] d = 3 -> "3"
      [] d = 4 -> "4" [] d = 5 -> "5" [] d = 6 -> "6" [] d = 7 -> "7"
      [] d = 8 -> "8" [] d = 9 -> "9"

RECURSIVE NatToString(_)
NatToString(n) ==
    IF n < 10 THEN Digit(n) ELSE NatToString(n \div 10) \o Digit(n % 10)

\* String(x) of a non-negative number x given in tenths.
NumberToString(n) ==
    IF n % 10 = 0
    THEN NatToString(n \div 10)
    ELSE NatToString(n \div 10) \o "." \o Digit(n % 10)

RECURSIVE JoinSeq(_, _)
JoinSeq(s, sep) ==
    IF Len(s) = 0 THEN ""
    ELSE IF Len(s) = 1 THEN NumberToString(s[1])
    ELSE NumberToString(s[1]) \o sep \o JoinSeq(Tail(s), sep)

\* arg1.join(','): a value that is no array has no join method.
join(x, sep) == IF isArray(x) THEN Str(JoinSeq(x.v, sep)) ELSE TypeError

---------------------------------------------------------------------------
(* The tagged template sql`...` *)

\* An exception raised while a substitution is evaluated leaves the call.
sql(strings, params) ==
    IF \E i \in 1..Len(params) : params[i].t = "throw"
    THEN TypeError
    ELSE [t |-> "SQL", strings |-> strings, params |-> params]

---------------------------------------------------------------------------
(* The exported operations *)

\* Variant: the second slot is emitted whether or not arg2 was supplied.
to_tsvector_AlwaysTwoSlots(arg1, arg2) ==
    sql(<<"to_tsvector(", ", ", ")">>, <<arg1, arg2>>)

to_tsvector(arg1, arg2) ==
    IF Truthy(arg2)
    THEN sql(<<"to_tsvector(", ", ", ")">>, <<arg1, arg2>>)
    ELSE sql(<<"to_tsvector(", ")">>, <<arg1>>)

to_tsquery(arg1, arg2) ==
    IF Truthy(arg2)
    THEN sql(<<"to_tsquery(", ", ", ")">>, <<arg1, arg2>>)
    ELSE sql(<<"to_tsquery(", ")">>, <<arg1>>)

plainto_tsquery(arg1, arg2) ==
    IF Truthy(arg2)
    THEN sql(<<"plainto_tsquery(", ", ", ")">>, <<arg1, arg2>>)
    ELSE sql(<<"plainto_tsquery(", ")">>, <<arg1>>)

phraseto_tsquery(arg1, arg2) ==
    IF Truthy(arg2)
    THEN sql(<<"phraseto_tsquery(", ", ", ")">>, <<arg1, arg2>>)
    ELSE sql(<<"phraseto_tsquery(", ")">>, <<arg1>>)

websearch_to_tsquery(arg1, arg2) ==
    IF Truthy(arg2)
    THEN sql(<<"websearch_to_tsquery(", ", ", ")">>, <<arg1, arg2>>)
    ELSE sql(<<"websearch_to_tsquery(", ")">>, <<arg1>>)

\* Variant: the test `typeof arg2 !== 'number'` is left out.
ts_rank_NoTypeofGuard(arg1, arg2, arg3, arg4) ==
    IF isArray(arg1) /\ arg3 # Undefined
    THEN IF Truthy(arg4)
         THEN sql(<<"ts_rank(string_to_array(", ", ',')::float4[], ", ", ", ", ", ")">>,
                  <<join(arg1, ","), arg2, arg3, arg4>>)
         ELSE sql(<<"ts_rank(string_to_array(", ", ',')::float4[], ", ", ", ")">>,
                  <<join(arg1, ","), arg2, arg3>>)
    ELSE IF Truthy(arg3)
         THEN sql(<<"ts_rank(", ", ", ", ", ")">>, <<arg1, arg2, arg3>>)
         ELSE sql(<<"ts_rank(", ", ", ")">>, <<arg1, arg2>>)

\* Variant: the test `arg3 !== undefined` is left out.
ts_rank_NoArityGuard(arg1, arg2, arg3, arg4) ==
    IF isArray(arg1) /\ typeof(arg2) # "number"
    THEN IF Truthy(arg4)
         THEN sql(<<"ts_rank(string_to_array(", ", ',')::float4[], ", ", ", ", ", ")">>,
                  <<join(arg1, ","), arg2, arg3, arg4>>)
         ELSE sql(<<"ts_rank(string_to_array(", ", ',')::float4[], ", ", ", ")">>,
                  <<join(arg1, ","), arg2, arg3>>)
    ELSE IF Truthy(arg3)
         THEN sql(<<"ts_rank(", ", ", ", ", ")">>, <<arg1, arg2, arg3>>)
         ELSE sql(<<"ts_rank(", ", ", ")">>, <<arg1, arg2>>)

\* Variant: the test `Array.isArray(arg1)` is left out.
ts_rank_NoArrayGuard(arg1, arg2, arg3, arg4) ==
    IF typeof(arg2) # "number" /\ arg3 # Undefined
    THEN IF Truthy(arg4)
         THEN sql(<<"ts_rank(string_to_array(", ", ',')::float4[], ", ", ", ", ", ")">>,
                  <<join(arg1, ","), arg2, arg3, arg4>>)
         ELSE sql(<<"ts_rank(string_to_array(", ", ',')::float4[], ", ", ", ")">>,
                  <<join(arg1, ","), arg2, arg3>>)
    ELSE IF Truthy(arg3)
         THEN sql(<<"ts_rank(", ", ", ", ", ")">>, <<arg1, arg2, arg3>>)
         ELSE sql(<<"ts_rank(", ", ", ")">>, <<arg1, arg2>>)

\* Variant: the weights array is bound as it is, not joined.
ts_rank_BindsArray(arg1, arg2, arg3, arg4) ==
    IF isArray(arg1) /\ typeof(arg2) # "number" /\ arg3 # Undefined
    THEN IF Truthy(arg4)
         THEN sql(<<"ts_rank(string_to_array(", ", ',')::float4[], ", ", ", ", ", ")">>,
                  <<arg1, arg2, arg3, arg4>>)
         ELSE sql(<<"ts_rank(string_to_array(", ", ',')::float4[], ", ", ", ")">>,
                  <<arg1, arg2, arg3>>)
    ELSE IF Truthy(arg3)
         THEN sql(<<"ts_rank(", ", ", ", ", ")">>, <<arg1, arg2, arg3>>)
         ELSE sql(<<"ts_rank(", ", ", ")">>, <<arg1, arg2>>)

ts_rank(arg1, arg2, arg3, arg4) ==
    IF isArray(arg1) /\ typeof(arg2) # "number" /\ arg3 # Undefined
    THEN IF Truthy(arg4)
         THEN sql(<<"ts_rank(string_to_array(", ", ',')::float4[], ", ", ", ", ", ")">>,
                  <<join(arg1, ","), arg2, arg3, arg4>>)
         ELSE sql(<<"ts_rank(string_to_array(", ", ',')::float4[], ", ", ", ")">>,
                  <<join(arg1, ","), arg2, arg3>>)
    ELSE IF Truthy(arg3)
         THEN sql(<<"ts_rank(", ", ", ", ", ")">>, <<arg1, arg2, arg3>>)
         ELSE sql(<<"ts_rank(", ", ", ")">>, <<arg1, arg2>>)

\* Variant: normalization is tested with `!== undefined`, unlike ts_rank.
ts_rank_cd_StrictNormalization(arg1, arg2, arg3, arg4) ==
    IF isArray(arg1) /\ typeof(arg2) # "number" /\ arg3 # Undefined
    THEN IF arg4 # Undefined
         THEN sql(<<"ts_rank_cd(string_to_array(", ", ',')::float4[], ", ", ", ", ", ")">>,
                  <<join(arg1, ","), arg2, arg3, arg4>>)
         ELSE sql(<<"ts_rank_cd(string_to_array(", ", ',')::float4[], ", ", ", ")">>,
                  <<join(arg1, ","), arg2, arg3>>)
    ELSE IF arg3 # Undefined
         THEN sql(<<"ts_rank_cd(", ", ", ", ", ")">>, <<arg1, arg2, arg3>>)
         ELSE sql(<<"ts_rank_cd(", ", ", ")">>, <<arg1, arg2>>)

ts_rank_cd(arg1, arg2, arg3, arg4) ==
    IF isArray(arg1) /\ typeof(arg2) # "number" /\ arg3 # Undefined
    THEN IF Truthy(arg4)
         THEN sql(<<"ts_rank_cd(string_to_array(", ", ',')::float4[], ", ", ", ", ", ")">>,
                  <<join(arg1, ","), arg2, arg3, arg4>>)
         ELSE sql(<<"ts_rank_cd(string_to_array(", ", ',')::float4[], ", ", ", ")">>,
                  <<join(arg1, ","), arg2, arg3>>)
    ELSE IF Truthy(arg3)
         THEN sql(<<"ts_rank_cd(", ", ", ", ", ")">>, <<arg1, arg2, arg3>>)
         ELSE sql(<<"ts_rank_cd(", ", ", ")">>, <<arg1, arg2>>)

\* Variant: the two slots are bound in the opposite order.
setweight_Swapped(vector, weight) == sql(<<"setweight(", ", ", ")">>, <<weight, vector>>)

setweight(vector, weight) == sql(<<"setweight(", ", ", ")">>, <<vector, weight>>)

---------------------------------------------------------------------------
(* Arguments of the calls *)

\* The weights of the documented example, [0.1, 0.2, 0.4, 0.3].
ExampleWeights == <<1, 2, 4, 3>>

\* 0, 0.1 and 2.5.
WeightElems == {0, 1, 25}

Arrays ==
    {Arr(s) : s \in UNION {[1..n -> WeightElems] : n \in 0..MaxWeights}}
        \cup {Arr(ExampleWeights)}

Strings == {Str(""), Str("english"), Str("Drizzle")}

\* Normalization flags 0, 1 and 32.
Numbers == {Num(0), Num(10), Num(320)}

Column == Obj("posts.title")

ExampleVector == to_tsvector(Str("english"), Column)

ExampleQuery == to_tsquery(Str("english"), Str("Drizzle"))

Scalars ==
    Strings \cup Numbers \cup {Column, ExampleVector, ExampleQuery, Arr(ExampleWeights)}

Values == Arrays \cup Scalars

WeightLabels == {Str("A"), Str("B"), Str("C"), Str("D")}

\* One or two arguments.
ConversionCalls ==
    {<<a>> : a \in Scalars} \cup {<<a, b>> : a \in Scalars, b \in Scalars}

\* Two to four arguments.
RankCalls ==
    {<<a, b>> : a \in Values, b \in Scalars}
        \cup {<<a, b, c>> : a \in Values, b \in Scalars, c \in Scalars}
        \cup {<<a, b, c, d>> : a \in Values, b \in Scalars, c \in Scalars, d \in Scalars}

SetweightCalls == {<<a, w>> : a \in Scalars, w \in WeightLabels}

---------------------------------------------------------------------------
(* The state machine: a caller calls one operation and takes its result *)

Init ==
    /\ pc = "idle"
    /\ op = "none"
    /\ args = <<>>
    /\ result = Undefined

Returned(name, a, r) ==
    /\ pc' = "returned"
    /\ op' = name
    /\ args' = a
    /\ result' = r

Call_to_tsvector ==
    /\ pc = "idle"
    /\ \E a \in ConversionCalls :
          Returned("to_tsvector", a, to_tsvector(Arg(a, 1), Arg(a, 2)))

Call_to_tsquery ==
    /\ pc = "idle"
    /\ \E a \in ConversionCalls :
          Returned("to_tsquery", a, to_tsquery(Arg(a, 1), Arg(a, 2)))

Call_plainto_tsquery ==
    /\ pc = "idle"
    /\ \E a \in ConversionCalls :
          Returned("plainto_tsquery", a, plainto_tsquery(Arg(a, 1), Arg(a, 2)))

Call_phraseto_tsquery ==
    /\ pc = "idle"
    /\ \E a \in ConversionCalls :
          Returned("phraseto_tsquery", a, phraseto_tsquery(Arg(a, 1), Arg(a, 2)))

Call_websearch_to_tsquery ==
    /\ pc = "idle"
    /\ \E a \in ConversionCalls :
          Returned("websearch_to_tsquery", a, websearch_to_tsquery(Arg(a, 1), Arg(a, 2)))

Call_ts_rank ==
    /\ pc = "idle"
    /\ \E a \in RankCalls :
          Returned("ts_rank", a, ts_rank(Arg(a, 1), Arg(a, 2), Arg(a, 3), Arg(a, 4)))

Call_ts_rank_cd ==
    /\ pc = "idle"
    /\ \E a \in RankCalls :
          Returned("ts_rank_cd", a, ts_rank_cd(Arg(a, 1), Arg(a, 2), Arg(a, 3), Arg(a, 4)))

Call_setweight ==
    /\ pc = "idle"
    /\ \E a \in SetweightCalls :
          Returned("setweight", a, setweight(a[1], a[2]))

\* The caller has used the fragment; the module keeps nothing of the call.
Release ==
    /\ pc = "returned"
    /\ pc' = "idle"
    /\ op' = "none"
    /\ args' = <<>>
    /\ result' = Undefined

Next ==
    \/ Call_to_tsvector
    \/ Call_to_tsquery
    \/ Call_plainto_tsquery
    \/ Call_phraseto_tsquery
    \/ Call_websearch_to_tsquery
    \/ Call_ts_rank
    \/ Call_ts_rank_cd
    \/ Call_setweight
    \/ Release

Spec == Init /\ [][Next]_vars

TypeOK ==
    /\ pc \in {"idle", "returned"}
    /\ pc = "returned" => result.t \in {"SQL", "throw"}

---------------------------------------------------------------------------
(* Vocabulary of the properties *)

ConversionOps ==
    {"to_tsvector", "to_tsquery", "plainto_tsquery", "phraseto_tsquery",
     "websearch_to_tsquery"}

RankOps == {"ts_rank", "ts_rank_cd"}

Fragment(strings, params) == [t |-> "SQL", strings |-> strings, params |-> params]

\* The call the current state returned from was made with the weights shape.
WeightedCall ==
    Len(args) >= 3 /\ isArray(args[1]) /\ args[2].t # "number"

IsWeightedForm(r) ==
    /\ r.t = "SQL"
    /\ Len(r.strings) >= 2
    /\ r.strings[1] = op \o "(string_to_array("
    /\ r.strings[2] = ", ',')::float4[], "

IsUnweightedForm(r) ==
    /\ r.t = "SQL"
    /\ r.strings \in {<<op \o "(", ", ", ")">>, <<op \o "(", ", ", ", ", ")">>}

\* The text of a number as the documentation writes it.
ElemText(n) ==
    CASE n = 0 -> "0" [] n = 1 -> "0.1" [] n = 2 -> "0.2" [] n = 3 -> "0.3"
      [] n = 4 -> "0.4" [] n = 25 -> "2.5"

RECURSIVE CommaJoined(_)
CommaJoined(s) ==
    IF Len(s) = 0 THEN ""
    ELSE IF Len(s) = 1 THEN ElemText(s[1])
    ELSE CommaJoined(SubSeq(s, 1, Len(s) - 1)) \o "," \o ElemText(s[Len(s)])

\* A fragment with its function keyword kw replaced by "fn".
Skeleton(r, kw) ==
    IF r.t # "SQL" THEN r
    ELSE [r EXCEPT !.strings[1] =
            IF @ = kw \o "(" THEN "fn("
            ELSE IF @ = kw \o "(string_to_array(" THEN "fn(string_to_array("
            ELSE @]

---------------------------------------------------------------------------
(* C1 *)

\* C1: a ts_rank / ts_rank_cd call that supplies a numeric normalization, the
\* value 0 included, returns a fragment whose last slot is bound to it, in the
\* weighted form (weights, vector, query, normalization) and in the unweighted
\* form (vector, query, normalization), vector and query being fragments.
C1_NormalizationRendered ==
    (pc = "returned" /\ op \in RankOps) =>
        /\ (Len(args) = 4 /\ WeightedCall /\ args[2].t = "SQL" /\ args[3].t = "SQL"
                /\ args[4].t = "number") =>
              /\ result.t = "SQL"
              /\ Len(result.params) = 4
              /\ result.params[4] = args[4]
        /\ (Len(args) = 3 /\ args[1].t = "SQL" /\ args[2].t = "SQL"
                /\ args[3].t = "number") =>
              /\ result.t = "SQL"
              /\ Len(result.params) = 3
              /\ result.params[3] = args[3]

(* C2 *)

\* C2: a conversion called with a leading string and a payload string (the
\* empty string included) returns fn(<slot1>, <slot2>) bound to the two
\* arguments in order; called with one argument it returns fn(<slot1>).
C2_ConfigurationThenPayload ==
    (pc = "returned" /\ op \in ConversionOps) =>
        /\ (Len(args) = 2 /\ args[1].t = "string" /\ args[2].t = "string") =>
              result = Fragment(<<op \o "(", ", ", ")">>, <<args[1], args[2]>>)
        /\ Len(args) = 1 =>
              result = Fragment(<<op \o "(", ")">>, <<args[1]>>)

(* C3 *)

\* C3: ts_rank / ts_rank_cd return the weighted form exactly when the first
\* argument is an array, at least 3 arguments are supplied and the second is
\* not a number; otherwise they return the unweighted form with the first
\* argument bound in the first (vector) slot.
C3_WeightedIff ==
    (pc = "returned" /\ op \in RankOps) =>
        /\ IsWeightedForm(result) <=> WeightedCall
        /\ ~WeightedCall =>
              /\ IsUnweightedForm(result)
              /\ result.params[1] = args[1]

\* An array first and a number second: the unweighted form, array in slot 1.
C3_Witness ==
    /\ pc = "returned"
    /\ op = "ts_rank"
    /\ args = <<Arr(ExampleWeights), Num(10), ExampleQuery>>
    /\ IsUnweightedForm(result)

(* C4 *)

\* C4: in the weighted form the first slot sits inside
\* string_to_array(<slot>, ',')::float4[], before the vector and query slots,
\* and is bound to the text of the array's elements joined by commas in their
\* order ([0.1,0.2,0.4,0.3] gives "0.1,0.2,0.4,0.3"), not to the array.
C4_WeightsSerialized ==
    (pc = "returned" /\ op \in RankOps /\ WeightedCall) =>
        /\ result.t = "SQL"
        /\ result.strings[1] = op \o "(string_to_array("
        /\ result.strings[2] = ", ',')::float4[], "
        /\ result.strings[3] = ", "
        /\ result.params[1] = Str(CommaJoined(args[1].v))
        /\ result.params[2] = args[2]
        /\ result.params[3] = args[3]
        /\ args[1] = Arr(ExampleWeights) => result.params[1] = Str("0.1,0.2,0.4,0.3")

C4_Witness ==
    /\ pc = "returned"
    /\ op = "ts_rank_cd"
    /\ args = <<Arr(ExampleWeights), ExampleVector, ExampleQuery>>
    /\ result.params[1] = Str("0.1,0.2,0.4,0.3")

(* C5 *)

\* C5: a ts_rank / ts_rank_cd call with exactly 2 arguments returns
\* fn(<arg1>, <arg2>) whatever the first argument is; an array passed first is
\* bound unchanged in the first slot.
C5_TwoArgsUnweighted ==
    (pc = "returned" /\ op \in RankOps /\ Len(args) = 2) =>
        result = Fragment(<<op \o "(", ", ", ")">>, <<args[1], args[2]>>)

C5_Witness ==
    /\ pc = "returned"
    /\ op = "ts_rank"
    /\ args = <<Arr(ExampleWeights), ExampleQuery>>
    /\ result.params[1] = Arr(ExampleWeights)

(* C6 *)

\* C6: an argument that is not supplied leaves no text and no slot: every
\* fragment has at most as many slots as the call has arguments, no slot is
\* bound to undefined, a one-argument conversion has one slot, a rank call
\* whose first argument is no array has no string_to_array segment, and a rank
\* call without normalization ends with the query slot.
C6_AbsentOmitted ==
    (pc = "returned" /\ result.t = "SQL") =>
        /\ Len(result.params) <= Len(args)
        /\ Len(result.strings) = Len(result.params) + 1
        /\ \A i \in 1..Len(result.params) : result.params[i] # Undefined
        /\ \A i \in 1..Len(result.strings) :
              result.strings[i] \in
                  {op \o "(", ", ", ")", op \o "(string_to_array(", ", ',')::float4[], "}
        /\ (op \in ConversionOps /\ Len(args) = 1) =>
              result = Fragment(<<op \o "(", ")">>, <<args[1]>>)
        /\ (op \in RankOps /\ ~isArray(args[1])) =>
              \A i \in 1..Len(result.strings) :
                  result.strings[i] \in {op \o "(", ", ", ")"}
        /\ (op \in RankOps /\ Len(args) = 2) =>
              /\ Len(result.params) = 2
              /\ result.params[2] = args[2]
        /\ (op \in RankOps /\ Len(args) = 3 /\ WeightedCall) =>
              /\ Len(result.params) = 3
              /\ result.params[3] = args[3]

C6_Witness ==
    /\ pc = "returned"
    /\ op = "to_tsvector"
    /\ args = <<Column>>
    /\ Len(result.params) = 1

(* C8 *)

\* C8: every call of an accepted shape returns a fragment; none raises.
C8_NoThrow == pc = "returned" => result.t = "SQL"

\* A rank call whose first argument is an empty array, in the weights shape.
C8_Witness ==
    /\ pc = "returned"
    /\ op = "ts_rank"
    /\ args = <<Arr(<<>>), ExampleVector, ExampleQuery, Num(320)>>
    /\ result.t = "SQL"

(* C9 *)

\* C9: setweight(vector, weight) returns setweight(<slot1>, <slot2>) with the
\* vector bound in slot 1 and the weight label in slot 2, and nothing else.
C9_Setweight ==
    (pc = "returned" /\ op = "setweight") =>
        result = Fragment(<<"setweight(", ", ", ")">>, <<args[1], args[2]>>)

C9_Witness ==
    /\ pc = "returned"
    /\ op = "setweight"
    /\ args = <<ExampleVector, Str("A")>>
    /\ result.params = <<ExampleVector, Str("A")>>

(* C10 *)

\* C10: for the arguments of any call, ts_rank and ts_rank_cd return the same
\* fragment up to the function keyword, and so do to_tsvector and the four
\* tsquery conversions.
C10_FamilyEquivalence ==
    pc = "returned" =>
        /\ op \in RankOps =>
              LET a1 == Arg(args, 1)
                  a2 == Arg(args, 2)
                  a3 == Arg(args, 3)
                  a4 == Arg(args, 4)
              IN  /\ Skeleton(result, op) = Skeleton(ts_rank(a1, a2, a3, a4), "ts_rank")
                  /\ Skeleton(result, op) = Skeleton(ts_rank_cd(a1, a2, a3, a4), "ts_rank_cd")
        /\ op \in ConversionOps =>
              LET a1 == Arg(args, 1)
                  a2 == Arg(args, 2)
              IN  /\ Skeleton(result, op) = Skeleton(to_tsvector(a1, a2), "to_tsvector")
                  /\ Skeleton(result, op) = Skeleton(to_tsquery(a1, a2), "to_tsquery")
                  /\ Skeleton(result, op) = Skeleton(plainto_tsquery(a1, a2), "plainto_tsquery")
                  /\ Skeleton(result, op) = Skeleton(phraseto_tsquery(a1, a2), "phraseto_tsquery")
                  /\ Skeleton(result, op) =
                        Skeleton(websearch_to_tsquery(a1, a2), "websearch_to_tsquery")

\* A weighted ts_rank_cd call with normalization 0, where the two differ most
\* easily.
C10_Witness ==
    /\ pc = "returned"
    /\ op = "ts_rank_cd"
    /\ args = <<Arr(ExampleWeights), ExampleVector, ExampleQuery, Num(0)>>
    /\ Skeleton(result, "ts_rank_cd").strings[1] = "fn(string_to_array("

====
